---- MODULE Spec2Model ----
(***************************************************************************)
(* A model of the sudoku constraint-propagation engine: the candidate      *)
(* cell (src/src/main.rs, Cell), the board with its topology, parsing and  *)
(* predicates (src/src/main.rs, Board), and the two strategies             *)
(* (src/src/remove_solved.rs, src/src/disjoint_subset.rs).                 *)
(*                                                                         *)
(* A character is its Unicode code point; a string is a sequence of code   *)
(* points.  A FixedBitSet of capacity 9 is the set of its set bit indexes, *)
(* a subset of 0..8.  A Vec<usize> is a sequence.  A panic (a failed       *)
(* unwrap) ends the program: status becomes "panic".                       *)
(***************************************************************************)
EXTENDS Integers, Sequences, FiniteSets, TLC

VARIABLES
    input,      \* the string last handed to Board::from_str
    board,      \* the Board the program holds
    status,     \* "new" (Board::new()), "ok" (a parsed or returned board),
                \* "parse_error" (Err(ParseBoardError)), "panic"
    op,         \* the operation last called
    arg,        \* the receiver / argument of the operation last called
    ret,        \* what the operation last called returned
    applies,    \* number of Strategy::apply calls made so far
    cell        \* a Cell on its own (Cell::new, from_digits, From<char>, remove)

vars == <<input, board, status, op, arg, ret, applies, cell>>

(***************************************************************************)
(* Bounds of the model.                                                    *)
(***************************************************************************)
MaxApplies == 3     \* Strategy::apply calls in one run
MaxLenDelta == 1    \* input lengths range over 81-MaxLenDelta .. 81+MaxLenDelta
MaxDigit == 10      \* digits handed to Cell::remove range over 0..MaxDigit

(***************************************************************************)
(* Cell (src/src/main.rs 15-123)                                           *)
(***************************************************************************)
Solved(d) == [tag |-> "Solved", digit |-> d]

Unsolved(bitset) == [tag |-> "Unsolved", bitset |-> bitset]

IsSolved(c) == c.tag = "Solved"

IsUnsolved(c) == c.tag = "Unsolved"

\* FixedBitSet::count_ones(..)
count_ones(bitset) == Cardinality(bitset)

\* FixedBitSet::ones().next().unwrap(): the lowest set bit
first_one(bitset) == CHOOSE i \in bitset : \A j \in bitset : i <= j

\* Cell::new(): with_capacity(9), set_range(.., true)
Cell_new == Unsolved(0..8)

\* Cell::from_digits: the assert on each digit fails fast (a panic)
from_digits(digs) ==
    IF \E d \in digs : ~(d >= 1 /\ d <= 9) THEN [panic |-> "assertion failed"]
    ELSE LET bitset == {d - 1 : d \in digs}
         IN  IF count_ones(bitset) = 1 THEN Solved(first_one(bitset) + 1)
             ELSE Unsolved(bitset)

Ok == [ok |-> TRUE, err |-> "", digit |-> 0]

Err(kind, d) == [ok |-> FALSE, err |-> kind, digit |-> d]

\* Cell::remove with the invalid-digit check dropped (a mutant)
remove_unchecked(c, d) ==
    IF IsUnsolved(c)
      THEN LET bitset == c.bitset \ {d - 1}
           IN  [cell |-> IF count_ones(bitset) = 1 THEN Solved(first_one(bitset) + 1)
                         ELSE Unsolved(bitset),
                res |-> Ok]
      ELSE [cell |-> c, res |-> Ok]

\* Cell::remove flipping the digit's bit instead of clearing it (a mutant)
remove_toggle(c, d) ==
    IF d < 1 \/ d > 9 THEN [cell |-> c, res |-> Err("invalid digit", d)]
    ELSE IF IsUnsolved(c)
      THEN LET bitset == (c.bitset \ {d - 1}) \cup ({d - 1} \ c.bitset)
           IN  [cell |-> IF count_ones(bitset) = 1 THEN Solved(first_one(bitset) + 1)
                         ELSE Unsolved(bitset),
                res |-> Ok]
    ELSE IF c.digit = d THEN [cell |-> c, res |-> Err("remove solved digit", d)]
    ELSE [cell |-> c, res |-> Ok]

\* Cell::remove with the transition to Solved at one candidate dropped
\* (a mutant)
remove_no_transition(c, d) ==
    IF d < 1 \/ d > 9 THEN [cell |-> c, res |-> Err("invalid digit", d)]
    ELSE IF IsUnsolved(c) THEN [cell |-> Unsolved(c.bitset \ {d - 1}), res |-> Ok]
    ELSE IF c.digit = d THEN [cell |-> c, res |-> Err("remove solved digit", d)]
    ELSE [cell |-> c, res |-> Ok]

\* Cell::remove(&mut self, digit): the cell afterwards and the Result
remove(c, d) ==
    IF d < 1 \/ d > 9 THEN [cell |-> c, res |-> Err("invalid digit", d)]
    ELSE IF IsUnsolved(c)
      THEN LET bitset == c.bitset \ {d - 1}
           IN  [cell |-> IF count_ones(bitset) = 1 THEN Solved(first_one(bitset) + 1)
                         ELSE Unsolved(bitset),
                res |-> Ok]
    ELSE IF c.digit = d THEN [cell |-> c, res |-> Err("remove solved digit", d)]
    ELSE [cell |-> c, res |-> Ok]

\* Cell::count
count(c) == IF IsSolved(c) THEN 1 ELSE count_ones(c.bitset)

\* Cell::digits
digits(c) == IF IsSolved(c) THEN {c.digit} ELSE {v + 1 : v \in c.bitset}

\* char::to_digit(10) on '0'..='9'
to_digit(ch) == ch - 48

\* impl From<char> for Cell: '0'..='9' is code points 48..57
Cell_from(ch) ==
    IF ch >= 48 /\ ch <= 57 THEN Solved(to_digit(ch)) ELSE Cell_new

(***************************************************************************)
(* Topology (src/src/main.rs 275-396)                                      *)
(***************************************************************************)
\* Board::rows
rows == <<
    <<0,1,2,3,4,5,6,7,8>>,
    <<9,10,11,12,13,14,15,16,17>>,
    <<18,19,20,21,22,23,24,25,26>>,
    <<27,28,29,30,31,32,33,34,35>>,
    <<36,37,38,39,40,41,42,43,44>>,
    <<45,46,47,48,49,50,51,52,53>>,
    <<54,55,56,57,58,59,60,61,62>>,
    <<63,64,65,66,67,68,69,70,71>>,
    <<72,73,74,75,76,77,78,79,80>> >>

\* Board::columns
columns == <<
    <<0,9,18,27,36,45,54,63,72>>,
    <<1,10,19,28,37,46,55,64,73>>,
    <<2,11,20,29,38,47,56,65,74>>,
    <<3,12,21,30,39,48,57,66,75>>,
    <<4,13,22,31,40,49,58,67,76>>,
    <<5,14,23,32,41,50,59,68,77>>,
    <<6,15,24,33,42,51,60,69,78>>,
    <<7,16,25,34,43,52,61,70,79>>,
    <<8,17,26,35,44,53,62,71,80>> >>

\* Board::boxes
boxes == <<
    <<0,1,2,9,10,11,18,19,20>>,
    <<3,4,5,12,13,14,21,22,23>>,
    <<6,7,8,15,16,17,24,25,26>>,
    <<27,28,29,36,37,38,45,46,47>>,
    <<30,31,32,39,40,41,48,49,50>>,
    <<33,34,35,42,43,44,51,52,53>>,
    <<54,55,56,63,64,65,72,73,74>>,
    <<57,58,59,66,67,68,75,76,77>>,
    <<60,61,62,69,70,71,78,79,80>> >>

\* Board::all_groups
all_groups == rows \o columns \o boxes

\* the n_idx != idx filter of the three neighbor loops
Others(seq, idx) == SelectSeq(seq, LAMBDA n : n /= idx)

\* Board::row_neighbors
row_neighbors(idx) ==
    LET row_start == idx - (idx % 9)
    IN  Others([k \in 1..9 |-> row_start + (k - 1)], idx)

\* Board::column_neighbors
column_neighbors(idx) ==
    LET col_start == idx % 9
    IN  Others([k \in 1..9 |-> col_start + (k - 1) * 9], idx)

\* Board::box_neighbors with the box anchored at the cell itself (a mutant)
box_neighbors_unanchored(idx) ==
    LET row == idx \div 9
        col == idx % 9
    IN  Others([k \in 1..9 |-> ((((k - 1) \div 3) + row) % 9) * 9
                                + ((col + ((k - 1) % 3)) % 9)], idx)

\* Board::box_neighbors
box_neighbors(idx) ==
    LET row == idx \div 9
        col == idx % 9
        box_row == row - (row % 3)
        box_col == col - (col % 3)
    IN  Others([k \in 1..9 |-> (((k - 1) \div 3) + box_row) * 9
                                + box_col + ((k - 1) % 3)], idx)

RECURSIVE insert(_, _)
\* x put in its place in the ascending sequence s
insert(s, x) ==
    IF s = <<>> THEN <<x>>
    ELSE IF x <= Head(s) THEN <<x>> \o s
    ELSE <<Head(s)>> \o insert(Tail(s), x)

RECURSIVE sort_unstable(_)
\* Vec::sort_unstable on usize: ascending order
sort_unstable(s) ==
    IF s = <<>> THEN <<>> ELSE insert(sort_unstable(Tail(s)), Head(s))

RECURSIVE dedup(_)
\* Vec::dedup: drops consecutive repeated elements
dedup(s) ==
    IF Len(s) <= 1 THEN s
    ELSE IF s[1] = s[2] THEN dedup(Tail(s))
    ELSE <<s[1]>> \o dedup(Tail(s))

\* Board::all_neighbors without the box neighbors (a mutant)
all_neighbors_no_box(idx) ==
    dedup(sort_unstable(row_neighbors(idx) \o column_neighbors(idx)))

\* Board::all_neighbors
all_neighbors(idx) ==
    dedup(sort_unstable(row_neighbors(idx) \o column_neighbors(idx)
                        \o box_neighbors(idx)))

\* all_neighbors of every position, computed once
neighbors_of == [idx \in 0..80 |-> all_neighbors(idx)]

Range(s) == {s[k] : k \in 1..Len(s)}

(***************************************************************************)
(* Board (src/src/main.rs 152-273, 413-428)                                *)
(***************************************************************************)
\* Board::new
Board_new == [idx \in 0..80 |-> Cell_new]

\* Board::valid: false at the first Solved cell equal to one of its neighbors
valid(b) ==
    \A idx \in 0..80 :
        IsSolved(b[idx]) =>
            \A k \in 1..Len(neighbors_of[idx]) : b[idx] /= b[neighbors_of[idx][k]]

\* Board::solved
solved(b) == valid(b) /\ \A idx \in 0..80 : IsSolved(b[idx])

\* char::len_utf8
len_utf8(ch) ==
    IF ch < 128 THEN 1 ELSE IF ch < 2048 THEN 2 ELSE IF ch < 65536 THEN 3 ELSE 4

RECURSIVE str_len(_)
\* str::len: the length of the string in bytes
str_len(s) == IF s = <<>> THEN 0 ELSE len_utf8(Head(s)) + str_len(Tail(s))

\* impl FromStr for Board: Ok(board), Err(ParseBoardError), or the panic of
\* s.chars().nth(idx).unwrap() when the string has fewer than idx+1 characters
from_str(s) ==
    IF str_len(s) = 81
      THEN IF \E idx \in 0..80 : idx >= Len(s)
             THEN [kind |-> "panic", board |-> Board_new]
             ELSE [kind |-> "Ok", board |-> [idx \in 0..80 |-> Cell_from(s[idx + 1])]]
      ELSE [kind |-> "Err", board |-> Board_new]

(***************************************************************************)
(* Strategies (src/src/remove_solved.rs, src/src/disjoint_subset.rs)       *)
(* A pass carries st = [cells, res]: the board being built and Ok, or the  *)
(* Err whose unwrap panicked (nothing after it runs).                      *)
(***************************************************************************)
\* result.cells[n].remove(digit).unwrap()
remove_unwrap(st, n, digit) ==
    IF ~st.res.ok THEN st
    ELSE LET r == remove(st.cells[n], digit)
         IN  IF r.res.ok THEN [cells |-> [st.cells EXCEPT ![n] = r.cell], res |-> Ok]
             ELSE [cells |-> st.cells, res |-> r.res]

RECURSIVE remove_from_neighbors(_, _, _, _)
\* for neighbor in neighbors { result.cells[neighbor].remove(digit).unwrap(); }
remove_from_neighbors(st, neighbors, k, digit) ==
    IF k > Len(neighbors) \/ ~st.res.ok THEN st
    ELSE remove_from_neighbors(remove_unwrap(st, neighbors[k], digit),
                               neighbors, k + 1, digit)

RECURSIVE rs_loop(_, _, _)
\* for idx in 0..81: the digit is read from the input board, not from result
rs_loop(b, st, idx) ==
    IF idx = 81 \/ ~st.res.ok THEN st
    ELSE rs_loop(b,
                 IF IsSolved(b[idx])
                   THEN remove_from_neighbors(st, neighbors_of[idx], 1, b[idx].digit)
                   ELSE st,
                 idx + 1)

RECURSIVE rs_loop_cascading(_, _)
\* the loop reading the digit from the board being built (a mutant)
rs_loop_cascading(st, idx) ==
    IF idx = 81 \/ ~st.res.ok THEN st
    ELSE rs_loop_cascading(
             IF IsSolved(st.cells[idx])
               THEN remove_from_neighbors(st, neighbors_of[idx], 1, st.cells[idx].digit)
               ELSE st,
             idx + 1)

\* RemoveSolvedFromNeighbors::apply propagating newly solved cells (a mutant)
RemoveSolvedFromNeighbors_cascading(b) ==
    rs_loop_cascading([cells |-> b, res |-> Ok], 0)

\* RemoveSolvedFromNeighbors::apply
RemoveSolvedFromNeighbors_apply(b) == rs_loop(b, [cells |-> b, res |-> Ok], 0)

RECURSIVE np_remove_no_skip(_, _, _, _, _, _)
\* the loop skipping idx1 only, so the second cell of the pair is not spared
\* (a mutant)
np_remove_no_skip(st, group, idx1, idx2, digit, idx) ==
    IF idx = 9 \/ ~st.res.ok THEN st
    ELSE np_remove_no_skip(IF idx /= idx1
                             THEN remove_unwrap(st, group[idx + 1], digit)
                             ELSE st,
                           group, idx1, idx2, digit, idx + 1)

RECURSIVE np_remove(_, _, _, _, _, _)
\* for idx in 0..9 { if idx != idx1 && idx != idx2 { ...remove(digit).unwrap() } }
np_remove(st, group, idx1, idx2, digit, idx) ==
    IF idx = 9 \/ ~st.res.ok THEN st
    ELSE np_remove(IF idx /= idx1 /\ idx /= idx2
                     THEN remove_unwrap(st, group[idx + 1], digit)
                     ELSE st,
                   group, idx1, idx2, digit, idx + 1)

RECURSIVE np_digits(_, _, _, _, _)
\* for digit_idx in bitset.ones(): ascending bit order
np_digits(st, group, idx1, idx2, bitset) ==
    IF bitset = {} \/ ~st.res.ok THEN st
    ELSE LET digit_idx == first_one(bitset)
         IN  np_digits(np_remove(st, group, idx1, idx2, digit_idx + 1, 0),
                       group, idx1, idx2, bitset \ {digit_idx})

RECURSIVE np_idx2(_, _, _, _, _)
\* for idx2 in idx1+1..9: cell2 is read from the board being changed
np_idx2(st, group, idx1, cell1, idx2) ==
    IF idx2 >= 9 \/ ~st.res.ok THEN st
    ELSE np_idx2(IF st.cells[group[idx2 + 1]] = cell1
                   THEN np_digits(st, group, idx1, idx2, cell1.bitset)
                   ELSE st,
                 group, idx1, cell1, idx2 + 1)

RECURSIVE np_idx1(_, _, _)
\* for idx1 in 0..8: cell1 is a clone of the cell of the board being changed
np_idx1(st, group, idx1) ==
    IF idx1 = 8 \/ ~st.res.ok THEN st
    ELSE LET cell1 == st.cells[group[idx1 + 1]]
         IN  np_idx1(IF IsUnsolved(cell1) /\ count_ones(cell1.bitset) = 2
                       THEN np_idx2(st, group, idx1, cell1, idx1 + 1)
                       ELSE st,
                     group, idx1 + 1)

RECURSIVE np_groups(_, _)
\* for group in Board::all_groups()
np_groups(st, g) ==
    IF g > Len(all_groups) \/ ~st.res.ok THEN st
    ELSE np_groups(np_idx1(st, all_groups[g], 0), g + 1)

\* NakedPair::apply
NakedPair_apply(b) == np_groups([cells |-> b, res |-> Ok], 1)

\* get_strategies: the names of the registered strategies, in order
get_strategies == <<"RemoveSolvedFromNeighbors", "NakedPair">>

\* Strategy::apply through the trait object
Strategy_apply(name, b) ==
    IF name = "RemoveSolvedFromNeighbors" THEN RemoveSolvedFromNeighbors_apply(b)
    ELSE NakedPair_apply(b)

(***************************************************************************)
(* The strings handed to Board::from_str: the boards of src/src/tests.rs   *)
(* and src/src/main.rs, each also with one character replaced and with a   *)
(* character cut off or added, and three boards that are valid and have no *)
(* solution.  A board's text is written as 81 numbers, 0 for '.' and d for *)
(* the digit character 'd'.                                                *)
(***************************************************************************)
\* the string of a board text: '.' is code point 46, '1'..'9' are 49..57
Chars(t) == [k \in 1..Len(t) |-> IF t[k] = 0 THEN 46 ELSE 48 + t[k]]

test_loaded_board == Chars(<<
    1,2,3,0,0,0,0,0,0,
    4,5,6,0,0,0,0,0,0,
    7,8,9,0,0,0,0,0,0,
    0,0,0,1,2,3,0,0,0,
    0,0,0,4,5,6,0,0,0,
    0,0,0,7,8,9,0,0,0,
    0,0,0,0,0,0,1,2,3,
    0,0,0,0,0,0,4,5,6,
    0,0,0,0,0,0,7,8,9 >>)

main_board == Chars(<<
    5,0,0,0,2,7,0,0,9,
    0,0,4,1,0,0,0,0,0,
    0,1,0,0,5,0,3,0,0,
    0,9,2,0,6,0,8,0,0,
    0,5,0,0,0,0,0,0,6,
    6,0,0,7,0,0,2,9,0,
    8,0,0,0,7,0,0,0,2,
    0,0,0,0,0,0,0,8,0,
    0,0,9,0,0,3,6,0,0 >>)

test_loaded_board_invalid == Chars(<<
    5,0,0,0,2,7,0,0,9,
    0,0,4,1,0,0,0,0,0,
    0,1,0,0,5,0,3,0,0,
    0,9,2,0,6,0,8,0,0,
    0,5,0,0,0,0,0,0,6,
    6,0,0,7,0,0,2,9,0,
    8,0,0,0,7,0,0,0,2,
    0,0,0,0,0,0,0,8,0,
    5,0,9,0,0,3,6,0,0 >>)

test_solved == Chars(<<
    1,2,3,4,5,6,7,8,9,
    4,5,6,7,8,9,1,2,3,
    7,8,9,1,2,3,4,5,6,
    2,3,4,5,6,7,8,9,1,
    5,6,7,8,9,1,2,3,4,
    8,9,1,2,3,4,5,6,7,
    3,4,5,6,7,8,9,1,2,
    6,7,8,9,1,2,3,4,5,
    9,1,2,3,4,5,6,7,8 >>)

test_naked_pair == Chars(<<
    4,0,0,2,7,0,6,0,0,
    7,9,8,1,5,6,2,3,4,
    0,2,0,8,4,0,0,0,7,
    2,3,7,4,6,8,9,5,1,
    8,4,9,5,3,1,7,2,6,
    5,6,1,7,9,2,8,4,3,
    0,8,2,0,1,5,4,7,9,
    0,7,0,0,2,4,3,0,0,
    0,0,4,0,8,7,0,0,2 >>)

\* a valid board whose cell 8 has no digit left: 1..8 in its row, 9 below it
no_candidate_board == Chars(<<
    1,2,3,4,5,6,7,8,0,
    0,0,0,0,0,0,0,0,9,
    0,0,0,0,0,0,0,0,0,
    0,0,0,0,0,0,0,0,0,
    0,0,0,0,0,0,0,0,0,
    0,0,0,0,0,0,0,0,0,
    0,0,0,0,0,0,0,0,0,
    0,0,0,0,0,0,0,0,0,
    0,0,0,0,0,0,0,0,0 >>)

\* a valid board whose cells 0 and 1 can both only be 9
two_nines_board == Chars(<<
    0,0,1,2,3,4,5,6,7,
    0,0,8,0,0,0,0,0,0,
    0,0,0,0,0,0,0,0,0,
    0,0,0,0,0,0,0,0,0,
    0,0,0,0,0,0,0,0,0,
    0,0,0,0,0,0,0,0,0,
    0,0,0,0,0,0,0,0,0,
    0,0,0,0,0,0,0,0,0,
    0,0,0,0,0,0,0,0,0 >>)

\* a valid board whose cells 0, 1 and 2 can each only be 1 or 2
three_pair_board == Chars(<<
    0,0,0,3,4,5,6,7,8,
    9,0,0,0,0,0,0,0,0,
    0,0,0,0,0,0,0,0,0,
    0,0,0,0,0,0,0,0,0,
    0,0,0,0,0,0,0,0,0,
    0,0,0,0,0,0,0,0,0,
    0,0,0,0,0,0,0,0,0,
    0,0,0,0,0,0,0,0,0,
    0,0,0,0,0,0,0,0,0 >>)

Puzzles == {test_loaded_board, main_board, test_loaded_board_invalid, test_solved,
            test_naked_pair}

\* the characters put into a board text: . 0 1 3 8 x and the two-byte e-acute
Alphabet == {46, 48, 49, 51, 56, 120, 233}

\* the positions at which a character is replaced
EditPositions == {0, 7, 18, 40, 71, 80}

\* s with the character at position pos replaced by ch, cut to n characters
\* or filled up to n characters with ch
Variation(s, pos, ch, n) ==
    LET e == [s EXCEPT ![pos + 1] = ch]
    IN  IF n <= Len(e) THEN SubSeq(e, 1, n) ELSE e \o [k \in 1..(n - Len(e)) |-> ch]

Inputs ==
    Puzzles \cup {no_candidate_board, two_nines_board, three_pair_board} \cup
    {Variation(s, pos, ch, n) :
        s \in Puzzles, pos \in EditPositions, ch \in Alphabet,
        n \in (81 - MaxLenDelta)..(81 + MaxLenDelta)}

(***************************************************************************)
(* The program: a board is made by Board::new() or parsed, strategies are  *)
(* applied to it and its predicates are asked.                             *)
(***************************************************************************)
Init ==
    /\ input = <<>>
    /\ board = Board_new
    /\ status = "new"
    /\ op = "Board::new"
    /\ arg = <<>>
    /\ ret = <<>>
    /\ applies = 0
    /\ cell = Cell_new

\* Board::from_str(s)
FromStr(s) ==
    /\ status = "new"
    /\ LET r == from_str(s)
       IN  /\ input' = s
           /\ op' = "from_str"
           /\ arg' = s
           /\ ret' = r.kind
           /\ board' = IF r.kind = "Ok" THEN r.board ELSE board
           /\ status' = IF r.kind = "Ok" THEN "ok"
                        ELSE IF r.kind = "Err" THEN "parse_error" ELSE "panic"
    /\ UNCHANGED <<applies, cell>>

\* get_strategies()[k].apply(&board): the board returned replaces the one held
Apply(k) ==
    /\ status \in {"new", "ok"}
    /\ applies < MaxApplies
    /\ LET st == Strategy_apply(get_strategies[k], board)
       IN  /\ op' = get_strategies[k]
           /\ arg' = board
           /\ ret' = st.res
           /\ board' = IF st.res.ok THEN st.cells ELSE board
           /\ status' = IF st.res.ok THEN "ok" ELSE "panic"
    /\ applies' = applies + 1
    /\ UNCHANGED <<input, cell>>

\* board.valid()
Valid ==
    /\ status \in {"new", "ok"}
    /\ op' = "valid"
    /\ arg' = board
    /\ ret' = valid(board)
    /\ UNCHANGED <<input, board, status, applies, cell>>

\* board.solved()
IsBoardSolved ==
    /\ status \in {"new", "ok"}
    /\ op' = "solved"
    /\ arg' = board
    /\ ret' = solved(board)
    /\ UNCHANGED <<input, board, status, applies, cell>>

Next ==
    \/ \E s \in Inputs : FromStr(s)
    \/ \E k \in 1..Len(get_strategies) : Apply(k)
    \/ Valid
    \/ IsBoardSolved

Spec == Init /\ [][Next]_vars

(***************************************************************************)
(* A cell on its own: made by a constructor, then digits are removed.      *)
(***************************************************************************)
CellInits ==
    {Cell_new} \cup {Cell_from(ch) : ch \in Alphabet}
               \cup {from_digits(ds) : ds \in (SUBSET (1..9)) \ {{}}}

InitCell ==
    /\ input = <<>>
    /\ board = Board_new
    /\ status = "new"
    /\ op = "Cell"
    /\ arg = <<>>
    /\ ret = <<>>
    /\ applies = 0
    /\ cell \in CellInits

\* cell.remove(d)
CellRemove(d) ==
    /\ LET r == remove(cell, d)
       IN  /\ op' = "remove"
           /\ arg' = [cell |-> cell, digit |-> d]
           /\ ret' = r.res
           /\ cell' = r.cell
    /\ UNCHANGED <<input, board, status, applies>>

NextCell == \E d \in 0..MaxDigit : CellRemove(d)

SpecCell == InitCell /\ [][NextCell]_vars

\* the cells made by Cell::new() and by from_digits of a non-empty digit set
InitCellDigits ==
    /\ input = <<>>
    /\ board = Board_new
    /\ status = "new"
    /\ op = "Cell"
    /\ arg = <<>>
    /\ ret = <<>>
    /\ applies = 0
    /\ cell \in {Cell_new} \cup {from_digits(ds) : ds \in (SUBSET (1..9)) \ {{}}}

SpecCellDigits == InitCellDigits /\ [][NextCell]_vars

(***************************************************************************)
(* The topology functions called on a position.                            *)
(***************************************************************************)
\* Board::row_neighbors(idx)
RowNeighbors(idx) ==
    /\ op' = "row_neighbors"
    /\ arg' = idx
    /\ ret' = row_neighbors(idx)
    /\ UNCHANGED <<input, board, status, applies, cell>>

\* Board::column_neighbors(idx)
ColumnNeighbors(idx) ==
    /\ op' = "column_neighbors"
    /\ arg' = idx
    /\ ret' = column_neighbors(idx)
    /\ UNCHANGED <<input, board, status, applies, cell>>

\* Board::box_neighbors(idx)
BoxNeighbors(idx) ==
    /\ op' = "box_neighbors"
    /\ arg' = idx
    /\ ret' = box_neighbors(idx)
    /\ UNCHANGED <<input, board, status, applies, cell>>

\* Board::all_neighbors(idx)
AllNeighbors(idx) ==
    /\ op' = "all_neighbors"
    /\ arg' = idx
    /\ ret' = all_neighbors(idx)
    /\ UNCHANGED <<input, board, status, applies, cell>>

NextTopo ==
    \E idx \in 0..80 :
        \/ RowNeighbors(idx)
        \/ ColumnNeighbors(idx)
        \/ BoxNeighbors(idx)
        \/ AllNeighbors(idx)

SpecTopo == Init /\ [][NextTopo]_vars

(***************************************************************************)
(* Properties.  Sharing a group and being a neighbor are taken from the    *)
(* tables rows, columns and boxes.                                         *)
(***************************************************************************)
Strategies == Range(get_strategies)

\* the board the string s parses to, when it parses
Parses(s) == from_str(s).kind = "Ok"

Parsed(s) == from_str(s).board

\* positions i and j are in one row, column or box
ShareGroup(i, j) ==
    \E g \in 1..Len(all_groups) : i \in Range(all_groups[g]) /\ j \in Range(all_groups[g])

\* the other positions sharing a group with each position
group_mates == [idx \in 0..80 |-> {j \in 0..80 : j /= idx /\ ShareGroup(idx, j)}]

GroupMates(idx) == group_mates[idx]

\* no two distinct cells sharing a group are Solved with the same digit
NoDuplicate(b) ==
    \A i \in 0..80 : \A j \in GroupMates(i) :
        ~(IsSolved(b[i]) /\ IsSolved(b[j]) /\ b[i].digit = b[j].digit)

\* the cell holding the digits ds: Solved when one is left
CellOf(ds) ==
    IF Cardinality(ds) = 1 THEN Solved(CHOOSE d \in ds : TRUE)
    ELSE Unsolved({d - 1 : d \in ds})

\* the digits of the neighbors of idx that are Solved in b
SolvedAround(b, idx) == {b[j].digit : j \in {n \in GroupMates(idx) : IsSolved(b[n])}}

\* C1: RemoveSolvedFromNeighbors.apply on the board parsed from an 81-character
\* string for which valid() holds completes and returns a board: no
\* Cell::remove inside it returns an error.
C1_RemoveSolvedTotal ==
    (/\ op = "RemoveSolvedFromNeighbors"
     /\ Len(input) = 81 /\ Parses(input)
     /\ arg = Parsed(input) /\ valid(arg))
        => (status = "ok" /\ ret.ok)

\* C2: NakedPair.apply completes on every board obtained from a parsed valid
\* board by completed strategy applications: it never asks a cell to remove its
\* own solved digit.
C2_NakedPairTotal ==
    (/\ op = "NakedPair"
     /\ Parses(input) /\ valid(Parsed(input)))
        => (status = "ok" /\ ret.ok)

\* C3: parsing maps the character at each of the 81 positions to the cell at
\* that position: '1'..'9' to Solved(that digit), every other character ('0'
\* too) to the Unsolved cell with all nine candidates, so no parsed cell is
\* Solved with a digit outside 1..9.
C3_ParseCells ==
    (op = "from_str" /\ ret = "Ok") =>
        \A idx \in 0..80 :
            /\ (arg[idx + 1] \in 49..57 => board[idx] = Solved(arg[idx + 1] - 48))
            /\ (arg[idx + 1] \notin 49..57 => board[idx] = Cell_new)
            /\ (IsSolved(board[idx]) => board[idx].digit \in 1..9)

\* C4: parsing succeeds exactly when the input has exactly 81 characters,
\* otherwise returns the length-mismatch error, and never aborts.
C4_ParseLength ==
    op = "from_str" =>
        /\ (ret = "Ok") = (Len(arg) = 81)
        /\ (ret /= "Ok" => ret = "Err")

\* C5: valid() is true iff no two distinct cells sharing a row, column or box
\* are Solved with the same digit; solved() is true iff valid() is and all 81
\* cells are Solved; the blank board is valid and not solved.
C5_ValidSolved ==
    /\ op = "valid" => ret = NoDuplicate(arg)
    /\ op = "solved" => ret = (valid(arg) /\ \A idx \in 0..80 : IsSolved(arg[idx]))
    /\ (op = "valid" /\ arg = Board_new) => ret = TRUE
    /\ (op = "solved" /\ arg = Board_new) => ret = FALSE

\* valid() was asked of a board with the same Solved digit twice in a box, in
\* different rows and columns
C5_Witness ==
    /\ op = "valid" /\ ret = FALSE
    /\ \E i \in 0..80 : \E j \in GroupMates(i) :
          IsSolved(arg[i]) /\ arg[i] = arg[j] /\ i \div 9 /= j \div 9 /\ i % 9 /= j % 9

\* the members of the one group of the table that holds idx, idx left out
Mates(table, idx) ==
    UNION {Range(table[g]) \ {idx} : g \in {h \in 1..Len(table) : idx \in Range(table[h])}}

InOneGroup(table, idx) ==
    Cardinality({g \in 1..Len(table) : idx \in Range(table[g])}) = 1

Distinct(s) == \A i, j \in 1..Len(s) : i /= j => s[i] /= s[j]

Ascending(s) == \A i \in 1..(Len(s) - 1) : s[i] < s[i + 1]

\* C6: row_neighbors, column_neighbors and box_neighbors return exactly the 8
\* other members of the one row, column and box of the tables holding idx;
\* all_neighbors is their sorted union: 20 distinct entries without idx; the
\* row and column neighbors share no index.
C6_Neighbors ==
    /\ op = "row_neighbors" =>
          InOneGroup(rows, arg) /\ Len(ret) = 8 /\ Distinct(ret)
          /\ Range(ret) = Mates(rows, arg)
    /\ op = "column_neighbors" =>
          InOneGroup(columns, arg) /\ Len(ret) = 8 /\ Distinct(ret)
          /\ Range(ret) = Mates(columns, arg)
    /\ op = "box_neighbors" =>
          InOneGroup(boxes, arg) /\ Len(ret) = 8 /\ Distinct(ret)
          /\ Range(ret) = Mates(boxes, arg)
    /\ op = "all_neighbors" =>
          /\ Ascending(ret) /\ Len(ret) = 20
          /\ Range(ret) = Range(row_neighbors(arg)) \cup Range(column_neighbors(arg))
                            \cup Range(box_neighbors(arg))
          /\ Range(ret) = Mates(rows, arg) \cup Mates(columns, arg) \cup Mates(boxes, arg)
          /\ arg \notin Range(ret)
          /\ Range(row_neighbors(arg)) \cap Range(column_neighbors(arg)) = {}

\* all_neighbors was called on the last position
C6_Witness == op = "all_neighbors" /\ arg = 80 /\ Len(ret) = 20

\* C7: Cell::remove(digit) returns an error and leaves the cell unchanged when
\* digit is outside 1..9 or the cell is Solved(digit); on Solved(d) with another
\* digit of 1..9 it returns Ok and leaves Solved(d).
C7_RemoveErrors ==
    op = "remove" =>
        /\ arg.digit \notin 1..9 => (~ret.ok /\ cell = arg.cell)
        /\ (IsSolved(arg.cell) /\ arg.cell.digit = arg.digit) =>
              (~ret.ok /\ cell = arg.cell)
        /\ (IsSolved(arg.cell) /\ arg.digit \in 1..9 /\ arg.cell.digit /= arg.digit) =>
              (ret.ok /\ cell = arg.cell)

\* a Solved cell was asked to remove its own digit and refused
C7_Witness ==
    /\ op = "remove" /\ IsSolved(arg.cell) /\ arg.cell.digit = arg.digit
    /\ arg.digit \in 1..9 /\ ret.err = "remove solved digit" /\ cell = arg.cell

\* C8: when RemoveSolvedFromNeighbors.apply completes, every output cell is
\* the input cell with exactly the digits of its neighbors Solved in the input
\* removed (Solved when one candidate remains); the digit of a cell that became
\* Solved during the pass is not removed from its neighbors.
C8_RemoveSolvedResult ==
    (op = "RemoveSolvedFromNeighbors" /\ ret.ok) =>
        \A idx \in 0..80 :
            board[idx] = IF IsSolved(arg[idx]) THEN arg[idx]
                         ELSE CellOf(digits(arg[idx]) \ SolvedAround(arg, idx))

\* a pass completed in which a cell became Solved and an Unsolved neighbor of
\* it keeps that digit
C8_Witness ==
    /\ op = "RemoveSolvedFromNeighbors" /\ ret.ok
    /\ \E idx \in 0..80 : \E n \in GroupMates(idx) :
          /\ IsUnsolved(arg[idx]) /\ IsSolved(board[idx])
          /\ IsUnsolved(board[n]) /\ board[idx].digit \in digits(board[n])

\* the cells of group g of b that hold exactly the two candidates of pair
Holders(b, g, pair) ==
    {i \in Range(all_groups[g]) : IsUnsolved(b[i]) /\ digits(b[i]) = pair}

Pairs == {pair \in SUBSET (1..9) : Cardinality(pair) = 2}

\* C9: for every group of the input board in which exactly two cells hold the
\* same 2-candidate set {a,b}, the board NakedPair.apply returns has neither a
\* nor b among the candidates of any other cell of the group.
C9_NakedPairEliminates ==
    (op = "NakedPair" /\ ret.ok) =>
        \A g \in 1..Len(all_groups) : \A pair \in Pairs :
            Cardinality(Holders(arg, g, pair)) = 2 =>
                \A i \in Range(all_groups[g]) \ Holders(arg, g, pair) :
                    IsUnsolved(board[i]) => digits(board[i]) \cap pair = {}

solution_loaded == <<
    1,2,3,5,6,4,8,9,7,
    4,5,6,8,9,7,2,3,1,
    7,8,9,2,3,1,5,6,4,
    9,7,5,1,2,3,6,4,8,
    3,1,8,4,5,6,9,7,2,
    2,6,4,7,8,9,3,1,5,
    5,9,7,6,4,8,1,2,3,
    8,3,1,9,7,2,4,5,6,
    6,4,2,3,1,5,7,8,9 >>

solution_main == <<
    5,8,3,4,2,7,1,6,9,
    9,7,4,1,3,6,5,2,8,
    2,1,6,8,5,9,3,7,4,
    7,9,2,3,6,4,8,5,1,
    3,5,1,2,9,8,7,4,6,
    6,4,8,7,1,5,2,9,3,
    8,6,5,9,7,1,4,3,2,
    1,3,7,6,4,2,9,8,5,
    4,2,9,5,8,3,6,1,7 >>

solution_naked_pair == <<
    4,1,5,2,7,3,6,9,8,
    7,9,8,1,5,6,2,3,4,
    6,2,3,8,4,9,5,1,7,
    2,3,7,4,6,8,9,5,1,
    8,4,9,5,3,1,7,2,6,
    5,6,1,7,9,2,8,4,3,
    3,8,2,6,1,5,4,7,9,
    1,7,6,9,2,4,3,8,5,
    9,5,4,3,8,7,1,6,2 >>

\* complete grids that are solved boards
Solutions ==
    {g \in {solution_loaded, solution_main, solution_naked_pair} :
        solved(Parsed(Chars(g)))}

\* b agrees with the grid g: each cell can still be the digit g has there
Consistent(b, g) == \A idx \in 0..80 : g[idx + 1] \in digits(b[idx])

\* C10 as claimed: every registered strategy returns a valid board for every
\* valid board (checked where apply returned).
C10_PreservesValid ==
    (op \in Strategies /\ valid(arg) /\ ret.ok) => valid(board)

\* C10 as amended: for every board that agrees with a complete solved grid
\* (hence valid), every registered strategy's apply returns, and returns a
\* valid board.
C10_PreservesValidOnSolvable ==
    \A g \in Solutions :
        (op \in Strategies /\ Consistent(arg, g)) =>
            (valid(arg) /\ status = "ok" /\ ret.ok /\ valid(board))

\* NakedPair changed a board that agrees with a solved grid
C10_Witness ==
    /\ op = "NakedPair" /\ ret.ok /\ board /= arg /\ valid(board)
    /\ \E g \in Solutions : Consistent(arg, g)

\* group g of b has three or more cells holding the two candidates of pair
Shared(b, g, pair) == Cardinality(Holders(b, g, pair)) >= 3

\* C11: when three or more cells of one group share the same 2-candidate set,
\* NakedPair.apply still completes and returns a board: the cells identical to
\* the pair are left unchanged and the two digits are removed from the other
\* cells of the group.
C11_NakedPairOnTriple ==
    (/\ op = "NakedPair"
     /\ \E g \in 1..Len(all_groups) : \E pair \in Pairs : Shared(arg, g, pair))
        => /\ status = "ok" /\ ret.ok
           /\ \A g \in 1..Len(all_groups) : \A pair \in Pairs :
                 Shared(arg, g, pair) =>
                     /\ \A i \in Holders(arg, g, pair) : board[i] = arg[i]
                     /\ \A i \in Range(all_groups[g]) \ Holders(arg, g, pair) :
                           IsUnsolved(board[i]) => digits(board[i]) \cap pair = {}

\* C12: in every state reached from Cell::new() or from_digits of a non-empty
\* digit set by Cell::remove calls, successful or failed, the cell is Solved(d)
\* with d in 1..9 or Unsolved with at least 2 candidates, and the remove that
\* leaves one candidate d yields Solved(d).
C12_CellShape ==
    /\ \/ IsSolved(cell) /\ cell.digit \in 1..9
       \/ IsUnsolved(cell) /\ cell.bitset \subseteq 0..8 /\ count_ones(cell.bitset) >= 2
    /\ (op = "remove" /\ IsUnsolved(arg.cell)) =>
          \A d \in 1..9 :
              (arg.digit \in 1..9 /\ digits(arg.cell) \ {arg.digit} = {d}) =>
                  (ret.ok /\ cell = Solved(d))

\* a remove took the last but one candidate of an Unsolved cell, which is now
\* Solved with the candidate left
C12_Witness ==
    /\ op = "remove" /\ ret.ok
    /\ IsUnsolved(arg.cell) /\ count(arg.cell) = 2 /\ arg.digit \in digits(arg.cell)
    /\ IsSolved(cell) /\ digits(arg.cell) = {arg.digit, cell.digit}

\* the positions of the Solved cells of b
SolvedCells(b) == {idx \in 0..80 : IsSolved(b[idx])}

\* C13: RemoveSolvedFromNeighbors is idempotent once no new cell gets solved:
\* when apply completed on b and the Solved cells of apply(b) are those of b,
\* apply on apply(b) completes and returns apply(b).
C13_RemoveSolvedIdempotent ==
    (/\ op = "RemoveSolvedFromNeighbors" /\ ret.ok
     /\ SolvedCells(board) = SolvedCells(arg))
        => LET again == RemoveSolvedFromNeighbors_apply(board)
           IN  again.res.ok /\ again.cells = board

\* a pass completed that removed candidates and solved no new cell
C13_Witness ==
    /\ op = "RemoveSolvedFromNeighbors" /\ ret.ok
    /\ SolvedCells(board) = SolvedCells(arg)
    /\ board /= arg

====
